---- MODULE Spec2Model ----
(***************************************************************************)
(* Apple SMC hwmon drivers (drivers/hwmon/macsmc-hwmon.c and the older     *)
(* table driven drivers/hwmon/applesmc-arm.c): registry construction from  *)
(* the device tree, the hwmon read / read_string callbacks, and the        *)
(* integer-only float decoder.                                             *)
(***************************************************************************)
EXTENDS Integers, Sequences, FiniteSets, TLC

(***************************************************************************)
(* Bounds of the model.                                                    *)
(***************************************************************************)
\* most children of the one group node that is explored in detail
MaxChildren == 2

(***************************************************************************)
(* C strings and fixed-size character fields.  A string is the sequence of *)
(* its character codes without the terminator; a char[] field is the       *)
(* sequence of all its bytes, 0 being NUL.                                 *)
(***************************************************************************)
MAX_LABEL_LENGTH == 32

Repeat(c, n) == [i \in 1..n |-> c]

\* strncpy(dst, src, n): the first n characters of src, padded with NULs up
\* to n bytes when src is shorter; no terminator is added when src has n
\* characters or more.
strncpy(src, n) == [i \in 1..n |-> IF i <= Len(src) THEN src[i] ELSE 0]

\* _SMC_KEY(s): the FourCC of the first four characters, big-endian.
SMC_KEY(s) == ((s[1] * 256 + s[2]) * 256 + s[3]) * 256 + s[4]

TYPE_FLT  == SMC_KEY(<<102, 108, 116, 32>>)    \* "flt "
TYPE_IOFT == SMC_KEY(<<105, 111, 102, 116>>)   \* "ioft"
TYPE_UI8  == SMC_KEY(<<117, 105, 56, 32>>)     \* "ui8 "

(***************************************************************************)
(* Key names used by the device trees of the model.                        *)
(***************************************************************************)
S_TC0P == <<84, 67, 48, 80>>
S_TG0P == <<84, 71, 48, 80>>
S_TU8x == <<84, 85, 56, 120>>
S_TBAD == <<84, 66, 65, 68>>
S_TBD2 == <<84, 66, 68, 50>>
S_F0Ac == <<70, 48, 65, 99>>
S_F0Mn == <<70, 48, 77, 110>>
S_F0Mx == <<70, 48, 77, 120>>
S_F0Tg == <<70, 48, 84, 103>>
S_FBAD == <<70, 66, 65, 68>>

\* "CPU Temp"
S_CPU_TEMP == <<67, 80, 85, 32, 84, 101, 109, 112>>

(***************************************************************************)
(* The SMC's key table: apple_smc_get_key_info(smc, key, &info).  ret is   *)
(* "OK" or an errno name; wr says whether *info was written, and type is   *)
(* the type code written.  What a failing lookup leaves in *info is not    *)
(* fixed by the interface: TBAD leaves it untouched, TBD2 leaves a type    *)
(* code behind.                                                            *)
(***************************************************************************)
apple_smc_get_key_info(key) ==
    CASE key = SMC_KEY(S_TC0P) -> [ret |-> "OK", wr |-> TRUE, type |-> TYPE_FLT]
      [] key = SMC_KEY(S_TG0P) -> [ret |-> "OK", wr |-> TRUE, type |-> TYPE_IOFT]
      [] key = SMC_KEY(S_TU8x) -> [ret |-> "OK", wr |-> TRUE, type |-> TYPE_UI8]
      [] key = SMC_KEY(S_F0Ac) -> [ret |-> "OK", wr |-> TRUE, type |-> TYPE_FLT]
      [] key = SMC_KEY(S_F0Mn) -> [ret |-> "OK", wr |-> TRUE, type |-> TYPE_FLT]
      [] key = SMC_KEY(S_F0Mx) -> [ret |-> "OK", wr |-> TRUE, type |-> TYPE_IOFT]
      [] key = SMC_KEY(S_F0Tg) -> [ret |-> "OK", wr |-> TRUE, type |-> TYPE_UI8]
      [] key = SMC_KEY(S_TBD2) -> [ret |-> "ENOENT", wr |-> TRUE, type |-> TYPE_FLT]
      [] OTHER                 -> [ret |-> "ENOENT", wr |-> FALSE, type |-> 0]

(***************************************************************************)
(* Device tree.  A string property is <<>> when absent and <<s>> when      *)
(* present with value s.  A group node is absent, or present with a        *)
(* sequence of key nodes in child order.                                   *)
(***************************************************************************)
Groups == {"temp", "power", "volt", "curr", "fan"}
SensorGroups == Groups \ {"fan"}

KeyNode(id, desc, fmin, fmax, ftarget) ==
    [keyid |-> id, keydesc |-> desc, fmin |-> fmin, fmax |-> fmax, ftarget |-> ftarget]

\* of_property_read_string(node, name, &out): 0 iff the property is there
of_property_read_string(prop) ==
    IF prop = <<>> THEN [ret |-> "EINVAL", str |-> <<>>]
                   ELSE [ret |-> "OK", str |-> prop[1]]

(***************************************************************************)
(* struct macsmc_hwmon_sensor, struct macsmc_hwmon_fan; devm_kzalloc       *)
(* hands them out zeroed.                                                  *)
(***************************************************************************)
ZeroLabel == Repeat(0, MAX_LABEL_LENGTH)
ZeroSensor == [type_code |-> 0, macsmc_key |-> 0, label |-> ZeroLabel]
ZeroFan == [now |-> ZeroSensor, min |-> ZeroSensor, max |-> ZeroSensor,
            set |-> ZeroSensor, label |-> ZeroLabel, attrs |-> 0]

\* struct macsmc_hwmon_sensors / macsmc_hwmon_fans: the array pointer
\* (alloc = FALSE is NULL), the array, and n_sensors / n_fans.
ZeroGroup == [alloc |-> FALSE, arr |-> <<>>, n |-> 0]

(***************************************************************************)
(* enum hwmon_fan_attributes and the HWMON_F_* bits, BIT(attr).            *)
(***************************************************************************)
hwmon_fan_attributes ==
    <<"enable", "input", "label", "min", "max", "div", "pulses", "target">>

hwmon_fan(name) ==
    CHOOSE i \in 0..(Len(hwmon_fan_attributes) - 1) : hwmon_fan_attributes[i + 1] = name

RECURSIVE Pow2(_)
Pow2(n) == IF n = 0 THEN 1 ELSE 2 * Pow2(n - 1)

BIT(n) == Pow2(n)
HasBit(word, n) == (word \div Pow2(n)) % 2 = 1
SetBit(word, n) == IF HasBit(word, n) THEN word ELSE word + Pow2(n)

HWMON_F_INPUT  == BIT(hwmon_fan("input"))
HWMON_F_LABEL  == BIT(hwmon_fan("label"))
HWMON_F_MIN    == BIT(hwmon_fan("min"))
HWMON_F_MAX    == BIT(hwmon_fan("max"))
HWMON_F_TARGET == BIT(hwmon_fan("target"))

(***************************************************************************)
(* macsmc_hwmon_parse_key(dev, smc, sensor, key)                           *)
(***************************************************************************)
macsmc_hwmon_parse_key(sensor, key) ==
    LET parsed(r) ==
          LET s1 == IF r.wr THEN [sensor EXCEPT !.type_code = r.type] ELSE sensor
          IN  IF r.ret # "OK"
              THEN [ret |-> r.ret, sensor |-> s1]
              ELSE [ret |-> "OK", sensor |-> [s1 EXCEPT !.macsmc_key = SMC_KEY(key)]]
    IN  parsed(apple_smc_get_key_info(SMC_KEY(key)))

(***************************************************************************)
(* macsmc_hwmon_create_sensor(dev, smc, sensor_node, sensor)               *)
(***************************************************************************)
macsmc_hwmon_create_sensor(node, sensor) ==
    LET k == of_property_read_string(node.keyid)
        d == of_property_read_string(node.keydesc)
        created(p) ==
          IF k.ret # "OK" THEN [ret |-> k.ret, sensor |-> sensor]
          ELSE IF p.ret # "OK" THEN p
          ELSE IF d.ret = "OK"
          THEN [ret |-> "OK",
                sensor |-> [p.sensor EXCEPT !.label = strncpy(d.str, MAX_LABEL_LENGTH)]]
          ELSE [ret |-> "OK",
                sensor |-> [p.sensor EXCEPT !.label = strncpy(k.str, MAX_LABEL_LENGTH)]]
    IN  created(macsmc_hwmon_parse_key(sensor, k.str))

(***************************************************************************)
(* macsmc_hwmon_create_fan(dev, smc, fan_node, fan)                        *)
(***************************************************************************)
\* one optional property (fan-minimum, fan-maximum, fan-target): the sub
\* sensor and the attribute word after looking it up
FanOptional(prop, sub, attrs, bit) ==
    LET o == of_property_read_string(prop)
        looked(p) ==
          IF o.ret # "OK" THEN [sub |-> sub, attrs |-> attrs]
          ELSE IF p.ret = "OK" THEN [sub |-> p.sensor, attrs |-> SetBit(attrs, bit)]
          ELSE [sub |-> p.sensor, attrs |-> attrs]
    IN  looked(macsmc_hwmon_parse_key(sub, o.str))

macsmc_hwmon_create_fan(node, fan) ==
    LET k == of_property_read_string(node.keyid)
        d == of_property_read_string(node.keydesc)
        lbl == IF d.ret = "OK" THEN strncpy(d.str, MAX_LABEL_LENGTH)
                               ELSE strncpy(k.str, MAX_LABEL_LENGTH)
        a0 == HWMON_F_LABEL + HWMON_F_INPUT
        created(p, mn, mx, tg) ==
          IF k.ret # "OK" THEN [ret |-> "EINVAL", fan |-> fan]
          ELSE IF p.ret # "OK" THEN [ret |-> p.ret, fan |-> [fan EXCEPT !.now = p.sensor]]
          ELSE [ret |-> "OK",
                fan |-> [now |-> p.sensor, min |-> mn.sub, max |-> mx.sub,
                         set |-> tg.sub, label |-> lbl, attrs |-> tg.attrs]]
        target(p, mn, mx) ==
          created(p, mn, mx,
                  FanOptional(node.ftarget, fan.set, mx.attrs, hwmon_fan("target")))
        maximum(p, mn) ==
          target(p, mn, FanOptional(node.fmax, fan.max, mn.attrs, hwmon_fan("max")))
    IN  maximum(macsmc_hwmon_parse_key(fan.now, k.str),
                FanOptional(node.fmin, fan.min, a0, hwmon_fan("min")))

(***************************************************************************)
(* macsmc_hwmon_populate_sensors(dev, smc, hwmon_node, type, sensors,      *)
(* fans, group_name).  node is the group node of_get_child_by_name finds   *)
(* (present = FALSE: none); sensors and fans are the destination pointers  *)
(* (null = TRUE: NULL).  The result holds the return value, the two        *)
(* destinations, the message logged on the way out, and whether            *)
(* of_node_put(group_node) was called.                                     *)
(***************************************************************************)
\* mutant of SensorLoop: i advances for every child, resolved or not
RECURSIVE SensorLoop_CountsEveryChild(_, _, _)
SensorLoop_CountsEveryChild(children, arr, i) ==
    IF children = <<>> THEN [arr |-> arr, i |-> i]
    ELSE LET next(r) ==
               SensorLoop_CountsEveryChild(Tail(children),
                                           [arr EXCEPT ![i + 1] = r.sensor], i + 1)
         IN  next(macsmc_hwmon_create_sensor(Head(children), arr[i + 1]))

\* for_each_child_of_node with macsmc_hwmon_create_sensor: the array and i
RECURSIVE SensorLoop(_, _, _)
SensorLoop(children, arr, i) ==
    IF children = <<>> THEN [arr |-> arr, i |-> i]
    ELSE LET next(r) ==
               SensorLoop(Tail(children), [arr EXCEPT ![i + 1] = r.sensor],
                          IF r.ret = "OK" THEN i + 1 ELSE i)
         IN  next(macsmc_hwmon_create_sensor(Head(children), arr[i + 1]))

\* for_each_child_of_node with macsmc_hwmon_create_fan: the array and i
RECURSIVE FanLoop(_, _, _)
FanLoop(children, arr, i) ==
    IF children = <<>> THEN [arr |-> arr, i |-> i]
    ELSE LET next(r) ==
               FanLoop(Tail(children), [arr EXCEPT ![i + 1] = r.fan],
                       IF r.ret = "OK" THEN i + 1 ELSE i)
         IN  next(macsmc_hwmon_create_fan(Head(children), arr[i + 1]))

PopResult(ret, sensors, fans, log, put) ==
    [ret |-> ret, sensors |-> sensors, fans |-> fans, log |-> log, put |-> put]

macsmc_hwmon_populate_sensors(type, node, sensors, fans, allocok) ==
    LET n_keys == Len(node.children)
        populated(sl, fl) ==
          LET sdone == [null |-> FALSE, v |-> [alloc |-> TRUE, arr |-> sl.arr, n |-> sl.i]]
              fdone == [null |-> FALSE, v |-> [alloc |-> TRUE, arr |-> fl.arr, n |-> fl.i]]
          IN  IF ~node.present
              THEN PopResult("EOPNOTSUPP", sensors, fans,
                             <<"info", "Key group not found">>, FALSE)
              ELSE IF n_keys = 0
              THEN PopResult("EOPNOTSUPP", sensors, fans, <<"err", "No keys found">>, TRUE)
              ELSE IF type = "macsmc_hwmon_type_sensor"
              THEN IF sensors.null
                   THEN PopResult("EINVAL", sensors, fans, <<>>, FALSE)
                   ELSE IF ~allocok
                   THEN PopResult("ENOMEM", sensors, fans, <<>>, TRUE)
                   ELSE IF sl.i = 0
                   THEN PopResult("EINVAL", sdone, fans,
                                  <<"err", "No valid sensor keys found">>, FALSE)
                   ELSE PopResult("OK", sdone, fans, <<>>, TRUE)
              ELSE IF type = "macsmc_hwmon_type_fan"
              THEN IF fans.null
                   THEN PopResult("EINVAL", sensors, fans, <<>>, FALSE)
                   ELSE IF ~allocok
                   THEN PopResult("ENOMEM", sensors, fans, <<>>, TRUE)
                   ELSE IF fl.i = 0
                   THEN PopResult("EINVAL", sensors, fdone,
                                  <<"err", "No valid fan keys found">>, FALSE)
                   ELSE PopResult("OK", sensors, fdone, <<>>, TRUE)
              ELSE PopResult("EOPNOTSUPP", sensors, fans, <<>>, FALSE)
    IN  populated(SensorLoop(node.children, Repeat(ZeroSensor, n_keys), 0),
                  FanLoop(node.children, Repeat(ZeroFan, n_keys), 0))

(***************************************************************************)
(* The channel metadata block.  Addresses are byte addresses; the block    *)
(* devm_kzalloc hands out is info_sz zeroed bytes at InfoBase, kept here   *)
(* as its sequence of u32 cells.  A pointer takes two cells (the address,  *)
(* then its upper half, PtrHi for a kernel address and 0 for NULL); struct *)
(* hwmon_channel_info is the type, four bytes of padding and the config    *)
(* pointer.  Every store is logged with the byte offset it lands at, its   *)
(* width and the channel it was made for, inside the block or not; a store *)
(* outside the block leaves the block's cells alone.                       *)
(***************************************************************************)
SIZEOF_U32 == 4
SIZEOF_PTR == 8
SIZEOF_CHANNEL_INFO == 16
OFFSETOF_CONFIG == 8

InfoBase == 4096
PtrHi == 65535

\* enum hwmon_sensor_types (include/linux/hwmon.h)
hwmon_sensor_types ==
    <<"hwmon_chip", "hwmon_temp", "hwmon_in", "hwmon_curr", "hwmon_power",
      "hwmon_energy", "hwmon_humidity", "hwmon_fan">>

hwmon_type(name) ==
    CHOOSE i \in 0..(Len(hwmon_sensor_types) - 1) : hwmon_sensor_types[i + 1] = name

\* the flag words (include/linux/hwmon.h): BIT() of the attribute's place
\* in the enum of its sensor type
HWMON_C_REGISTER_TZ == BIT(4)
HWMON_T_INPUT == BIT(1)
HWMON_T_LABEL == BIT(21)
HWMON_I_INPUT == BIT(1)
HWMON_I_LABEL == BIT(10)
HWMON_C_INPUT == BIT(1)
HWMON_C_LABEL == BIT(10)
HWMON_P_INPUT == BIT(9)
HWMON_P_LABEL == BIT(22)

NewBlock(sz) == [sz |-> sz, mem |-> Repeat(0, sz \div SIZEOF_U32), writes |-> <<>>]

InBlock(m, addr, len) == addr >= InfoBase /\ addr + len <= InfoBase + m.sz

Cell(addr) == (addr - InfoBase) \div SIZEOF_U32 + 1

\* *(u32 *)addr = val, made for channel ch
Store(m, addr, val, ch) ==
    [sz |-> m.sz,
     mem |-> IF InBlock(m, addr, SIZEOF_U32)
             THEN [m.mem EXCEPT ![Cell(addr)] = val] ELSE m.mem,
     writes |-> Append(m.writes,
                       [off |-> addr - InfoBase, len |-> SIZEOF_U32, ch |-> ch])]

\* *(void **)addr = p, made for channel ch
StorePtr(m, addr, p, ch) ==
    [sz |-> m.sz,
     mem |-> IF InBlock(m, addr, SIZEOF_PTR)
             THEN [m.mem EXCEPT ![Cell(addr)] = p,
                                ![Cell(addr) + 1] = IF p = 0 THEN 0 ELSE PtrHi]
             ELSE m.mem,
     writes |-> Append(m.writes,
                       [off |-> addr - InfoBase, len |-> SIZEOF_PTR, ch |-> ch])]

Load(m, addr) == m.mem[Cell(addr)]

\* info[i], info[i]->config
InfoEntry(m, i) == Load(m, InfoBase + i * SIZEOF_PTR)
InfoConfig(m, i) == Load(m, InfoEntry(m, i) + OFFSETOF_CONFIG)

(***************************************************************************)
(* macsmc_hwmon_populate_configs(configs, num_keys, flags) and             *)
(* macsmc_hwmon_populate_fan_configs(configs, num_keys, fans)              *)
(***************************************************************************)
\* the loop and the store after it; words[idx + 1] is what configs[idx] gets
RECURSIVE ConfigLoop(_, _, _, _, _, _)
ConfigLoop(m, configs, idx, num_keys, words, ch) ==
    IF idx < num_keys
    THEN ConfigLoop(Store(m, configs + idx * SIZEOF_U32, words[idx + 1], ch),
                    configs, idx + 1, num_keys, words, ch)
    ELSE Store(m, configs + (idx + 1) * SIZEOF_U32, 0, ch)

macsmc_hwmon_populate_configs(m, configs, num_keys, flags, ch) ==
    ConfigLoop(m, configs, 0, num_keys, Repeat(flags, num_keys), ch)

macsmc_hwmon_populate_fan_configs(m, configs, num_keys, fans, ch) ==
    ConfigLoop(m, configs, 0, num_keys,
               [idx \in 1..num_keys |-> fans.arr[idx].attrs], ch)

(***************************************************************************)
(* macsmc_hwmon_populate_info(hwmon, info, n_chans).  st holds the block,  *)
(* i and j.                                                                *)
(***************************************************************************)
\* mutant of InfoOrder: the groups listed in the order probe populates them
InfoOrder_AsPopulated == <<"temp", "power", "volt", "curr", "fan">>

\* the order in which populate_info lists the groups
InfoOrder == <<"temp", "volt", "curr", "power", "fan">>

InfoType(g) ==
    CASE g = "temp"  -> "hwmon_temp"
      [] g = "volt"  -> "hwmon_in"
      [] g = "curr"  -> "hwmon_curr"
      [] g = "power" -> "hwmon_power"
      [] g = "fan"   -> "hwmon_fan"

InfoFlags(g) ==
    CASE g = "temp"  -> HWMON_T_INPUT + HWMON_T_LABEL
      [] g = "volt"  -> HWMON_I_INPUT + HWMON_I_LABEL
      [] g = "curr"  -> HWMON_C_INPUT + HWMON_C_LABEL
      [] g = "power" -> HWMON_P_INPUT + HWMON_P_LABEL

\* info[i] = at; info[i]->type = type; info[i]->config = (u32 *)(info[i] + 1)
InfoHeader(m, i, at, type) ==
    LET listed(m1) ==
          LET typed(m2) ==
                StorePtr(m2, InfoEntry(m2, i) + OFFSETOF_CONFIG,
                         InfoEntry(m2, i) + SIZEOF_CHANNEL_INFO, i)
          IN  typed(Store(m1, InfoEntry(m1, i), hwmon_type(type), i))
    IN  listed(StorePtr(m, InfoBase + i * SIZEOF_PTR, at, i))

InfoChip(m, n_chans) ==
    LET headed(m1) ==
          macsmc_hwmon_populate_configs(m1, InfoConfig(m1, 0), 1, HWMON_C_REGISTER_TZ, 0)
    IN  [m |-> headed(InfoHeader(m, 0, InfoBase + n_chans * SIZEOF_PTR, "hwmon_chip")),
         i |-> 0, j |-> 2]

InfoGroup(h, g, st) ==
    IF h[g].n = 0 THEN st
    ELSE LET i == st.i + 1
             headed(m1) ==
               IF g = "fan"
               THEN macsmc_hwmon_populate_fan_configs(m1, InfoConfig(m1, i), h[g].n,
                                                      h[g], i)
               ELSE macsmc_hwmon_populate_configs(m1, InfoConfig(m1, i), h[g].n,
                                                  InfoFlags(g), i)
         IN  [m |-> headed(InfoHeader(st.m, i,
                                      InfoConfig(st.m, i - 1) + st.j * SIZEOF_U32,
                                      InfoType(g))),
              i |-> i, j |-> h[g].n + 1]

RECURSIVE InfoGroups(_, _, _)
InfoGroups(h, order, st) ==
    IF order = <<>> THEN st
    ELSE InfoGroups(h, Tail(order), InfoGroup(h, Head(order), st))

macsmc_hwmon_populate_info(h, m, n_chans) ==
    LET listed(st) == StorePtr(st.m, InfoBase + (st.i + 1) * SIZEOF_PTR, 0, st.i + 1)
    IN  listed(InfoGroups(h, InfoOrder, InfoChip(m, n_chans)))

(***************************************************************************)
(* macsmc_hwmon_probe(pdev), after the validation: the size of the block   *)
(* and the number of list entries, then the block filled in.               *)
(***************************************************************************)
\* the order in which probe sizes the groups
SizeOrder == <<"power", "temp", "volt", "curr", "fan">>

RECURSIVE InfoSize(_, _, _)
InfoSize(h, order, acc) ==
    IF order = <<>>
    THEN [info_sz |-> acc.info_sz + SIZEOF_PTR, n_chans |-> acc.n_chans + 1]
    ELSE InfoSize(h, Tail(order),
                  IF h[Head(order)].n # 0
                  THEN [info_sz |-> acc.info_sz + SIZEOF_PTR + SIZEOF_CHANNEL_INFO
                                    + SIZEOF_U32 * (h[Head(order)].n + 1),
                        n_chans |-> acc.n_chans + 1]
                  ELSE acc)

\* info_sz and n_chans as probe has them when it allocates
ChipInfoSize(h) ==
    InfoSize(h, SizeOrder,
             [info_sz |-> SIZEOF_PTR + SIZEOF_CHANNEL_INFO + SIZEOF_U32 * 2,
              n_chans |-> 1])

NoInfo == [n_chans |-> 0, sz |-> 0, mem |-> <<>>, writes |-> <<>>]

ChipInfo(h) ==
    LET sized(z) ==
          LET filled(m) ==
                [n_chans |-> z.n_chans, sz |-> m.sz, mem |-> m.mem, writes |-> m.writes]
          IN  filled(macsmc_hwmon_populate_info(h, NewBlock(z.info_sz), z.n_chans))
    IN  sized(ChipInfoSize(h))

(***************************************************************************)
(* macsmc_hwmon_probe(pdev), up to the validation of the five groups.      *)
(* The five group structs come zeroed from devm_kzalloc and are filled in  *)
(* the order temp, power, volt, curr, fan; each return value is only       *)
(* logged.  ret is "ENODEV" when the macsmc-hwmon node is missing or all   *)
(* five groups are empty.                                                  *)
(***************************************************************************)
NullPtr == [null |-> TRUE, v |-> ZeroGroup]
Ptr(v) == [null |-> FALSE, v |-> v]

PopulateGroup(tree, g) ==
    IF g = "fan"
    THEN macsmc_hwmon_populate_sensors("macsmc_hwmon_type_fan", tree.group[g],
                                       NullPtr, Ptr(ZeroGroup), TRUE)
    ELSE macsmc_hwmon_populate_sensors("macsmc_hwmon_type_sensor", tree.group[g],
                                       Ptr(ZeroGroup), NullPtr, TRUE)

\* mutant of AllEmpty: the fan group is left out of the validation
AllEmpty_ForgetsFans(h) ==
    /\ h["temp"].n = 0 /\ h["volt"].n = 0 /\ h["curr"].n = 0
    /\ h["power"].n = 0

AllEmpty(h) ==
    /\ h["temp"].n = 0 /\ h["volt"].n = 0 /\ h["curr"].n = 0
    /\ h["power"].n = 0 /\ h["fan"].n = 0

\* the order in which probe populates the groups
GroupOrder == <<"temp", "power", "volt", "curr", "fan">>

GroupStruct(g, r) == IF g = "fan" THEN r.fans.v ELSE r.sensors.v

\* mutant of macsmc_hwmon_probe: a group that fails to populate ends the
\* population, the groups after it staying empty
macsmc_hwmon_probe_StopsAtFirstError(tree) ==
    LET validated(h, lg) ==
          IF ~tree.hwmon_node
          THEN [ret |-> "ENODEV", hwmon |-> [g \in Groups |-> ZeroGroup],
                pop |-> [g \in Groups |-> [ret |-> "NONE", log |-> <<>>, put |-> FALSE]],
                info |-> NoInfo]
          ELSE IF AllEmpty(h)
          THEN [ret |-> "ENODEV", hwmon |-> h, pop |-> lg, info |-> NoInfo]
          ELSE [ret |-> "OK", hwmon |-> h, pop |-> lg, info |-> ChipInfo(h)]
        populated(pr) ==
          LET reached(g) == \A i, j \in 1..Len(GroupOrder) :
                              (GroupOrder[j] = g /\ i < j) => pr[GroupOrder[i]].ret = "OK"
          IN  validated([g \in Groups |->
                           IF reached(g) THEN GroupStruct(g, pr[g]) ELSE ZeroGroup],
                        [g \in Groups |->
                           IF reached(g)
                           THEN [ret |-> pr[g].ret, log |-> pr[g].log, put |-> pr[g].put]
                           ELSE [ret |-> "NONE", log |-> <<>>, put |-> FALSE]])
    IN  populated([g \in Groups |-> PopulateGroup(tree, g)])

macsmc_hwmon_probe(tree) ==
    LET validated(h, lg) ==
          IF ~tree.hwmon_node
          THEN [ret |-> "ENODEV", hwmon |-> [g \in Groups |-> ZeroGroup],
                pop |-> [g \in Groups |-> [ret |-> "NONE", log |-> <<>>, put |-> FALSE]],
                info |-> NoInfo]
          ELSE IF AllEmpty(h)
          THEN [ret |-> "ENODEV", hwmon |-> h, pop |-> lg, info |-> NoInfo]
          ELSE [ret |-> "OK", hwmon |-> h, pop |-> lg, info |-> ChipInfo(h)]
        populated(pr) ==
          validated([g \in Groups |-> GroupStruct(g, pr[g])],
                    [g \in Groups |->
                       [ret |-> pr[g].ret, log |-> pr[g].log, put |-> pr[g].put]])
    IN  populated([g \in Groups |-> PopulateGroup(tree, g)])

(***************************************************************************)
(* The device trees explored.  Key nodes of a sensor group and of the fan  *)
(* group; a tree has either one group node explored in detail (up to       *)
(* MaxChildren children of any kind, the other groups absent), or each of  *)
(* the five groups absent, childless, unresolvable or resolving.           *)
(***************************************************************************)
NoProp == <<>>
Prop(s) == <<s>>

SensorNodes ==
    { KeyNode(NoProp, Prop(S_CPU_TEMP), NoProp, NoProp, NoProp),
      KeyNode(Prop(S_TBAD), NoProp, NoProp, NoProp, NoProp),
      KeyNode(Prop(S_TBD2), Prop(S_CPU_TEMP), NoProp, NoProp, NoProp),
      KeyNode(Prop(S_TC0P), Prop(S_CPU_TEMP), NoProp, NoProp, NoProp),
      KeyNode(Prop(S_TG0P), NoProp, NoProp, NoProp, NoProp),
      KeyNode(Prop(S_TU8x), Prop(Repeat(65, MAX_LABEL_LENGTH)), NoProp, NoProp, NoProp),
      KeyNode(Prop(S_TC0P), Prop(Repeat(66, MAX_LABEL_LENGTH - 1)), NoProp, NoProp, NoProp) }

\* the optional fan properties: absent (1), unresolvable (2), resolving (3)
FanOpt(k, good) == IF k = 1 THEN NoProp ELSE IF k = 2 THEN Prop(S_FBAD) ELSE Prop(good)

FanOptCombos ==
    { <<1, 1, 1>>, <<3, 3, 3>>, <<2, 2, 2>>, <<3, 1, 2>>, <<1, 2, 3>>, <<2, 3, 1>> }

FanNodes ==
    { KeyNode(NoProp, NoProp, Prop(S_F0Mn), NoProp, NoProp),
      KeyNode(Prop(S_FBAD), NoProp, Prop(S_F0Mn), Prop(S_F0Mx), Prop(S_F0Tg)),
      KeyNode(Prop(S_F0Ac), Prop(Repeat(67, MAX_LABEL_LENGTH + 1)), NoProp, Prop(S_F0Mx), NoProp) }
    \cup { KeyNode(Prop(S_F0Ac), NoProp, FanOpt(c[1], S_F0Mn), FanOpt(c[2], S_F0Mx),
                   FanOpt(c[3], S_F0Tg)) : c \in FanOptCombos }

KeyNodes(g) == IF g = "fan" THEN FanNodes ELSE SensorNodes

SeqsUpTo(S, n) == UNION { [1..k -> S] : k \in 0..n }

AbsentNode == [present |-> FALSE, children |-> <<>>]
GroupNode(children) == [present |-> TRUE, children |-> children]

\* a key node that never resolves and one that always does
BadNode(g) == IF g = "fan" THEN KeyNode(Prop(S_FBAD), NoProp, NoProp, NoProp, NoProp)
                           ELSE KeyNode(Prop(S_TBAD), NoProp, NoProp, NoProp, NoProp)
GoodNode(g) == IF g = "fan"
               THEN KeyNode(Prop(S_F0Ac), NoProp, Prop(S_F0Mn), Prop(S_F0Mx), Prop(S_F0Tg))
               ELSE KeyNode(Prop(S_TC0P), Prop(S_CPU_TEMP), NoProp, NoProp, NoProp)

PlainNodes(g) ==
    { AbsentNode, GroupNode(<<>>), GroupNode(<<BadNode(g)>>), GroupNode(<<GoodNode(g)>>) }

DeepTrees ==
    { [hwmon_node |-> TRUE,
       group |-> [g \in Groups |-> IF g = x[1] THEN GroupNode(x[2]) ELSE AbsentNode]] :
      x \in UNION { {g} \X SeqsUpTo(KeyNodes(g), MaxChildren) : g \in Groups } }

WideTrees ==
    { [hwmon_node |-> TRUE, group |-> f] :
      f \in { f \in [Groups -> UNION { PlainNodes(g) : g \in Groups }] :
              \A g \in Groups : f[g] \in PlainNodes(g) } }

NoHwmonTree == [hwmon_node |-> FALSE, group |-> [g \in Groups |-> AbsentNode]]

Trees == DeepTrees \cup WideTrees \cup {NoHwmonTree}

(***************************************************************************)
(* Machine words.  A word is the sequence of its bits, bit 0 first; u32    *)
(* has 32 of them and unsigned long, on the 64-bit kernels this driver is  *)
(* built for, 64.                                                          *)
(***************************************************************************)
BITS_PER_U32 == 32
BITS_PER_LONG == 64

\* the word of width w holding n (0 <= n < 2^31)
Word(n, w) == [i \in 1..w |-> IF i <= 31 THEN (n \div Pow2(i - 1)) % 2 ELSE 0]

\* the number a word holds, when below 2^31
RECURSIVE WordNat(_)
WordNat(b) == IF b = <<>> THEN 0 ELSE b[1] + 2 * WordNat(Tail(b))

Shl(b, n) == [i \in 1..Len(b) |-> IF i - n >= 1 THEN b[i - n] ELSE 0]
Shr(b, n) == [i \in 1..Len(b) |-> IF i + n <= Len(b) THEN b[i + n] ELSE 0]

\* a shift of a word by a count that is not below its width is undefined:
\* the hardware shifts by the count modulo the width, a folded constant is 0
ShlC(b, n) == IF n < Len(b) THEN {Shl(b, n)} ELSE {Shl(b, n % Len(b)), Shl(b, Len(b))}
ShrC(b, n) == IF n < Len(b) THEN {Shr(b, n)} ELSE {Shr(b, n % Len(b)), Shr(b, Len(b))}

\* a word as digits of 10 bits each, lowest first
Limb(b, k) == WordNat([i \in 1..10 |-> IF 10 * k + i <= Len(b) THEN b[10 * k + i] ELSE 0])
Limbs(b) == [k \in 1..((Len(b) + 9) \div 10) |-> Limb(b, k - 1)]

\* long division of the digits by d (d < 2^20), top digit first: the digits
\* of the quotient, lowest first
RECURSIVE DivLimbs(_, _, _, _)
DivLimbs(l, d, i, r) ==
    IF i = 0 THEN <<>>
    ELSE DivLimbs(l, d, i - 1, (r * 1024 + l[i]) % d) \o <<(r * 1024 + l[i]) \div d>>

S32_MIN == -2147483647 - 1

\* (s32)(b / d): the low 32 bits of the quotient, as a signed number
DivToS32(b, d) ==
    LET q == DivLimbs(Limbs(b), d, Len(Limbs(b)), 0)
    IN  q[1] + 1024 * q[2] + 1048576 * q[3] + 1073741824 * (q[4] % 2)
        + (IF (q[4] \div 2) % 2 = 1 THEN S32_MIN ELSE 0)

\* result *= -1 on an s32 (the kernel is built with wrapping overflow)
NegS32(x) == IF x = S32_MIN THEN S32_MIN ELSE 0 - x

(***************************************************************************)
(* macsmc_f32_to_u32(flt) of applesmc-arm.c.  flt is the 32-bit pattern;   *)
(* the result is the set of outcomes, each with the exp the decoder used   *)
(* and the s32 result it returns.                                          *)
(***************************************************************************)
\* the pattern with sign bit, exponent field and mantissa field as given
F32(sign, e, m) ==
    [i \in 1..BITS_PER_U32 |->
       IF i = 32 THEN sign
       ELSE IF i >= 24 THEN (e \div Pow2(i - 24)) % 2
       ELSE (m \div Pow2(i - 1)) % 2]

\* the loop over mantissa bits 22..0: val += b * (1000000000 >> (23 - i))
RECURSIVE MantissaSum(_, _)
MantissaSum(mant, i) ==
    IF i < 0 THEN 0
    ELSE ((mant \div Pow2(i)) % 2) * (1000000000 \div Pow2(23 - i)) + MantissaSum(mant, i - 1)

F32Scaled(shifted, sign) ==
    LET result == DivToS32(shifted, 1000000)
    IN  IF sign = 1 THEN NegS32(result) ELSE result

macsmc_f32_to_u32(flt) ==
    LET sign == WordNat(Shr(flt, 31))
        exp  == WordNat(Shr(flt, 23))
        mant == WordNat(Shr(Shl(flt, 9), 9))
        val  == MantissaSum(mant, 22)
        sub  == Word(val, BITS_PER_LONG)
        nrm  == Word(val + 1000000000, BITS_PER_LONG)
    IN  IF exp = 0 /\ mant # 0
        THEN { [exp |-> exp, res |-> F32Scaled(x, sign)] :
               x \in IF exp > 127 THEN ShlC(sub, exp - 127) ELSE ShrC(sub, 127 - exp) }
        ELSE IF ~(exp = 0 /\ mant = 0)
        THEN { [exp |-> exp, res |-> F32Scaled(x, sign)] :
               x \in IF exp > 127 THEN ShlC(nrm, exp - 127) ELSE ShrC(nrm, 127 - exp) }
        ELSE { [exp |-> exp, res |-> IF sign = 1 THEN NegS32(0) ELSE 0] }

(***************************************************************************)
(* applesmc-arm.c: the table driven driver.  A device is bound to the      *)
(* tables of its SoC; a label is a pointer into a table, <<table, chan>>,  *)
(* and so is the address a key is loaded from.                             *)
(***************************************************************************)
ArmDevices == {"t8103", "t600x"}

\* macsmc_hwmon_t8103_data, macsmc_hwmon_t600x_data, with the lengths of the
\* tables they point at
macsmc_hwmon_data(dev) ==
    IF dev = "t8103"
    THEN [temps |-> "macsmc_t8103_temps", n_temps |-> 5,
          powers |-> "macsmc_t8103_powers", n_powers |-> 2]
    ELSE [temps |-> "macsmc_t600x_temps", n_temps |-> 5,
          powers |-> "macsmc_t600x_powers", n_powers |-> 2]

\* the u32 an s32 converts to, and the long a u32 converts to, as words
U32OfS32(x) ==
    IF x >= 0 THEN Word(x, BITS_PER_U32)
    ELSE [Word(x - S32_MIN, BITS_PER_U32) EXCEPT ![BITS_PER_U32] = 1]

LongOfU32(b) == [i \in 1..BITS_PER_LONG |-> IF i <= Len(b) THEN b[i] ELSE 0]

\* macsmc_hwmon_get_label(dev, type, attr, chan, label), second half: the
\* switch, on the hwmon pointer h it finds in its static variable
macsmc_hwmon_get_label(h, type, chan) ==
    IF type = "hwmon_temp"
    THEN [ret |-> "OK", label |-> <<macsmc_hwmon_data(h).temps, chan>>]
    ELSE IF type = "hwmon_power"
    THEN [ret |-> "OK", label |-> <<macsmc_hwmon_data(h).powers, chan>>]
    ELSE [ret |-> "EOPNOTSUPP", label |-> <<>>]

\* the transport of applesmc-arm.c: apple_smc_read_u32(smc, key, &readback)
\* stores a float pattern, or fails and leaves readback at 0
ArmTransportOutcomes ==
    { [ret |-> "OK", readback |-> F32(0, 127, 4194304)],
      [ret |-> "OK", readback |-> F32(1, 128, 0)],
      [ret |-> "EIO", readback |-> F32(0, 0, 0)] }

\* macsmc_hwmon_read(dev, type, attr, chan, val) of applesmc-arm.c: the set
\* of outcomes.  ret of the transport is assigned and never looked at.
arm_macsmc_hwmon_read(dev, type, chan, tr) ==
    IF type \in {"hwmon_temp", "hwmon_power"}
    THEN { [ret |-> "OK",
            key |-> <<IF type = "hwmon_temp" THEN macsmc_hwmon_data(dev).temps
                      ELSE macsmc_hwmon_data(dev).powers, chan>>,
            calls |-> <<tr.ret>>,
            val |-> LongOfU32(U32OfS32(o.res))] :
           o \in macsmc_f32_to_u32(tr.readback) }
    ELSE { [ret |-> "EOPNOTSUPP", key |-> <<>>, calls |-> <<>>, val |-> <<>>] }

(***************************************************************************)
(* The transport (apple_smc_read_f32_scaled, apple_smc_read_ioft_scaled):  *)
(* one round trip to the SMC, which answers with a value or fails with an  *)
(* errno of its own and leaves the output untouched.  The value is the     *)
(* scaled quantity, a signed number (45 degrees, 5 degrees below zero).    *)
(***************************************************************************)
TransportValues == {45000, -5000}

TransportOutcomes ==
    { [ret |-> "OK", out |-> v] : v \in TransportValues }
    \cup { [ret |-> "EIO", out |-> 0] }

(***************************************************************************)
(* macsmc_hwmon_read_key(smc, sensor, scale, val).  tr is what the         *)
(* transport answers if it is called.  calls lists the transport calls     *)
(* made; wr says whether *val was written.                                 *)
(***************************************************************************)
KeyResult(ret, wr, val, calls) == [ret |-> ret, wr |-> wr, val |-> val, calls |-> calls]

TransportCall(fn, sensor, scale, tr) ==
    [fn |-> fn, key |-> sensor.macsmc_key, scale |-> scale, ret |-> tr.ret,
     out |-> tr.out]

\* a long the callback did not write
NoVal == <<>>

\* the 64-bit two's complement word of a number that fits 32 bits
LongOfInt(x) ==
    LET low == U32OfS32(x)
    IN  [i \in 1..BITS_PER_LONG |-> IF i <= BITS_PER_U32 THEN low[i]
                                    ELSE IF x < 0 THEN 1 ELSE 0]

\* what the transport may leave in its output
TransportOuts == { o.out : o \in TransportOutcomes }

\* u32 flt_; the transport stores through &flt_; *val = flt_
FltLongs == [out \in TransportOuts |-> LongOfU32(U32OfS32(out))]
LongOfFlt(out) == FltLongs[out]

\* u64 ioft; the transport stores through &ioft; *val = ioft
IoftLongs == [out \in TransportOuts |-> LongOfInt(out)]
LongOfIoft(out) == IoftLongs[out]

macsmc_hwmon_read_key(sensor, scale, tr) ==
    IF sensor.type_code = TYPE_FLT
    THEN KeyResult(IF tr.ret # "OK" THEN "EINVAL" ELSE "OK", TRUE, LongOfFlt(tr.out),
                   <<TransportCall("apple_smc_read_f32_scaled", sensor, scale, tr)>>)
    ELSE IF sensor.type_code = TYPE_IOFT
    THEN KeyResult(IF tr.ret # "OK" THEN "EINVAL" ELSE "OK", TRUE, LongOfIoft(tr.out),
                   <<TransportCall("apple_smc_read_ioft_scaled", sensor, scale, tr)>>)
    ELSE KeyResult("EOPNOTSUPP", FALSE, NoVal, <<>>)

(***************************************************************************)
(* Element `channel` of a group's array, as the callbacks fetch it         *)
(* (sensors[channel], fans[chan]) with no check of their own.  Inside the  *)
(* allocation the slot is what probe left there, also beyond n_sensors.    *)
(* Outside it (or with a NULL array) the access is undefined: it faults,   *)
(* or it reads whatever lies there.                                        *)
(***************************************************************************)
JunkSensors ==
    { ZeroSensor,
      [type_code |-> TYPE_FLT, macsmc_key |-> SMC_KEY(S_TBAD), label |-> ZeroLabel] }

JunkFans ==
    { ZeroFan,
      [ZeroFan EXCEPT !.attrs = HWMON_F_INPUT + HWMON_F_MIN,
                      !.now = [type_code |-> TYPE_FLT, macsmc_key |-> SMC_KEY(S_FBAD),
                               label |-> ZeroLabel]] }

Fetched(fault, d) == [fault |-> fault, d |-> d]

Fetch(grp, channel, zero, junk) ==
    IF grp.alloc /\ channel < Len(grp.arr)
    THEN { Fetched(FALSE, grp.arr[channel + 1]) }
    ELSE { Fetched(TRUE, zero) } \cup { Fetched(FALSE, d) : d \in junk }

(***************************************************************************)
(* macsmc_hwmon_read_fan(hwmon, attr, chan, val), on the fan fetched       *)
(***************************************************************************)
\* mutant of macsmc_hwmon_read_fan: the capability bit is not consulted
macsmc_hwmon_read_fan_NoCapabilityCheck(fan, attr, tr) ==
    IF attr = "input"  THEN macsmc_hwmon_read_key(fan.now, 1, tr)
    ELSE IF attr = "min"    THEN macsmc_hwmon_read_key(fan.min, 1, tr)
    ELSE IF attr = "max"    THEN macsmc_hwmon_read_key(fan.max, 1, tr)
    ELSE IF attr = "target" THEN macsmc_hwmon_read_key(fan.set, 1, tr)
    ELSE KeyResult("EINVAL", FALSE, NoVal, <<>>)

macsmc_hwmon_read_fan(fan, attr, tr) ==
    IF ~HasBit(fan.attrs, hwmon_fan(attr))
    THEN KeyResult("EINVAL", FALSE, NoVal, <<>>)
    ELSE IF attr = "input"  THEN macsmc_hwmon_read_key(fan.now, 1, tr)
    ELSE IF attr = "min"    THEN macsmc_hwmon_read_key(fan.min, 1, tr)
    ELSE IF attr = "max"    THEN macsmc_hwmon_read_key(fan.max, 1, tr)
    ELSE IF attr = "target" THEN macsmc_hwmon_read_key(fan.set, 1, tr)
    ELSE KeyResult("EINVAL", FALSE, NoVal, <<>>)

(***************************************************************************)
(* macsmc_hwmon_read(dev, type, attr, channel, val): the set of possible   *)
(* outcomes, each with the slot fetched.                                   *)
(***************************************************************************)
HwmonTypes ==
    {"hwmon_temp", "hwmon_in", "hwmon_curr", "hwmon_power", "hwmon_fan", "hwmon_humidity"}

GroupOf(type) ==
    CASE type = "hwmon_temp"  -> "temp"
      [] type = "hwmon_in"    -> "volt"
      [] type = "hwmon_curr"  -> "curr"
      [] type = "hwmon_power" -> "power"
      [] type = "hwmon_fan"   -> "fan"
      [] OTHER                -> "none"

ScaleOf(type) == IF type = "hwmon_power" THEN 1000000 ELSE 1000

Outcome(r, fetched, fault) ==
    [ret |-> r.ret, wr |-> r.wr, val |-> r.val, calls |-> r.calls,
     fetched |-> fetched, fault |-> fault]

Oops == Outcome(KeyResult("OOPS", FALSE, NoVal, <<>>), TRUE, TRUE)

macsmc_hwmon_read(h, type, attr, channel, tr) ==
    IF type \in {"hwmon_temp", "hwmon_in", "hwmon_curr", "hwmon_power"}
    THEN { IF f.fault THEN Oops
           ELSE Outcome(macsmc_hwmon_read_key(f.d, ScaleOf(type), tr), TRUE, FALSE) :
           f \in Fetch(h[GroupOf(type)], channel, ZeroSensor, JunkSensors) }
    ELSE IF type = "hwmon_fan"
    THEN { IF f.fault THEN Oops
           ELSE Outcome(macsmc_hwmon_read_fan(f.d, attr, tr), TRUE, FALSE) :
           f \in Fetch(h["fan"], channel, ZeroFan, JunkFans) }
    ELSE { Outcome(KeyResult("EOPNOTSUPP", FALSE, NoVal, <<>>), FALSE, FALSE) }

(***************************************************************************)
(* macsmc_hwmon_read_label(dev, type, attr, channel, str): the return      *)
(* value and the label field *str points at.                               *)
(***************************************************************************)
macsmc_hwmon_read_label(h, type, channel) ==
    IF type \in {"hwmon_temp", "hwmon_in", "hwmon_curr", "hwmon_power", "hwmon_fan"}
    THEN IF channel >= h[GroupOf(type)].n
         THEN [ret |-> "EINVAL", wr |-> FALSE, str |-> ZeroLabel]
         ELSE [ret |-> "OK", wr |-> TRUE, str |-> h[GroupOf(type)].arr[channel + 1].label]
    ELSE [ret |-> "EOPNOTSUPP", wr |-> FALSE, str |-> ZeroLabel]

(***************************************************************************)
(* State.                                                                  *)
(***************************************************************************)
VARIABLES
    dt,         \* the platform's device tree
    bound,      \* whether probe has run
    probe_ret,  \* what macsmc_hwmon_probe returned
    hwmon,      \* struct macsmc_hwmon: the five groups
    pop,        \* per group: what macsmc_hwmon_populate_sensors returned and logged
    info,       \* the channel metadata block probe allocated and filled in
    call,       \* the last hwmon callback made and what came of it
    f32in,      \* float patterns still to be decoded
    f32out,     \* the patterns decoded, each with what the decoder made of it
    arm_hwmon,  \* applesmc-arm.c: the static pointer of macsmc_hwmon_get_label
    arm_call    \* applesmc-arm.c: per caller, the callback it is in

hwmon_vars == <<dt, bound, probe_ret, hwmon, pop, info, call>>
f32_vars == <<f32in, f32out>>
arm_vars == <<arm_hwmon, arm_call>>
vars == <<dt, bound, probe_ret, hwmon, pop, info, call, f32in, f32out, arm_hwmon, arm_call>>

NoCall ==
    [op |-> "none", type |-> "none", attr |-> "none", channel |-> 0,
     ret |-> "NONE", wr |-> FALSE, val |-> <<>>, calls |-> <<>>,
     fetched |-> FALSE, fault |-> FALSE, str |-> ZeroLabel]

\* applesmc-arm.c: the callers of the hwmon callbacks, and a caller at rest
NumCallers == 2
Callers == 1..NumCallers

ArmIdle ==
    [pc |-> "idle", op |-> "none", dev |-> "none", type |-> "none", chan |-> 0,
     ret |-> "NONE", label |-> <<>>, key |-> <<>>, val |-> <<>>]

\* macsmc-hwmon.c before probe, with the device tree given
HwmonInit(trees) ==
    /\ dt \in trees
    /\ bound = FALSE
    /\ probe_ret = "NONE"
    /\ hwmon = [g \in Groups |-> ZeroGroup]
    /\ pop = [g \in Groups |-> [ret |-> "NONE", log |-> <<>>, put |-> FALSE]]
    /\ info = NoInfo
    /\ call = NoCall

F32Idle == f32in = <<>> /\ f32out = <<>>

ArmInit == arm_hwmon = "NULL" /\ arm_call = [p \in Callers |-> ArmIdle]

Init == HwmonInit(Trees) /\ F32Idle /\ ArmInit

Probe ==
    /\ ~bound
    /\ \E r \in {macsmc_hwmon_probe(dt)} :
         /\ probe_ret' = r.ret
         /\ hwmon' = r.hwmon
         /\ pop' = r.pop
         /\ info' = r.info
    /\ bound' = TRUE
    /\ UNCHANGED <<dt, call, f32_vars, arm_vars>>

\* the attributes the hwmon core may ask of a channel of each type
FanAttrs == {"input", "min", "max", "target", "div"}
AttrsOf(type) == IF type = "hwmon_fan" THEN FanAttrs ELSE {"input"}

Channels == 0..MaxChildren

\* a read through hwmon_ops.read, once the device is registered
Read ==
    /\ bound /\ probe_ret = "OK" /\ call = NoCall
    /\ \E type \in HwmonTypes, channel \in Channels, tr \in TransportOutcomes :
         \E attr \in AttrsOf(type) :
           \E o \in macsmc_hwmon_read(hwmon, type, attr, channel, tr) :
             call' = [op |-> "read", type |-> type, attr |-> attr, channel |-> channel,
                      ret |-> o.ret, wr |-> o.wr, val |-> o.val, calls |-> o.calls,
                      fetched |-> o.fetched, fault |-> o.fault, str |-> ZeroLabel]
    /\ UNCHANGED <<dt, bound, probe_ret, hwmon, pop, info, f32_vars, arm_vars>>

\* a label lookup through hwmon_ops.read_string
ReadLabel ==
    /\ bound /\ probe_ret = "OK" /\ call = NoCall
    /\ \E type \in HwmonTypes, channel \in Channels :
         LET r == macsmc_hwmon_read_label(hwmon, type, channel)
         IN  call' = [op |-> "read_string", type |-> type, attr |-> "label",
                      channel |-> channel, ret |-> r.ret, wr |-> r.wr, val |-> <<>>,
                      calls |-> <<>>, fetched |-> r.wr, fault |-> FALSE, str |-> r.str]
    /\ UNCHANGED <<dt, bound, probe_ret, hwmon, pop, info, f32_vars, arm_vars>>

\* the callback's result is consumed by the hwmon core; the next may start
Return ==
    /\ call # NoCall
    /\ call' = NoCall
    /\ UNCHANGED <<dt, bound, probe_ret, hwmon, pop, info, f32_vars, arm_vars>>

Next == Probe \/ Read \/ ReadLabel \/ Return

Spec == Init /\ [][Next]_vars

(***************************************************************************)
(* The float decoder on its own: two patterns are given, and decoded one   *)
(* after the other.                                                        *)
(***************************************************************************)
F32Exps == {0, 1, 63, 64, 126, 127, 128, 147, 150}
F32Mants == {0, 1, 4194304, 8388607}
F32Patterns == [sign : {0, 1}, e : F32Exps, m : F32Mants]

InitF32 ==
    /\ HwmonInit({NoHwmonTree}) /\ ArmInit
    /\ f32in \in [1..2 -> F32Patterns]
    /\ f32out = <<>>

F32Decode ==
    /\ f32in # <<>>
    /\ \E o \in macsmc_f32_to_u32(F32(Head(f32in).sign, Head(f32in).e, Head(f32in).m)) :
         f32out' = Append(f32out, [sign |-> Head(f32in).sign, e |-> Head(f32in).e,
                                   m |-> Head(f32in).m, exp |-> o.exp, res |-> o.res])
    /\ f32in' = Tail(f32in)
    /\ UNCHANGED <<hwmon_vars, arm_vars>>

NextF32 == F32Decode

SpecF32 == InitF32 /\ [][NextF32]_vars

(***************************************************************************)
(* applesmc-arm.c under concurrent callers.  macsmc_hwmon_get_label keeps  *)
(* its hwmon pointer in a static variable: it stores dev's pointer there,  *)
(* then dereferences.  The store and the later load are unsynchronised, so *)
(* the load sees the caller's own store or another caller's.               *)
(***************************************************************************)
ArmTypes == {"hwmon_temp", "hwmon_power", "hwmon_in"}
MaxArmChan == 2
ArmChannels == 0..MaxArmChan

InitArm == HwmonInit({NoHwmonTree}) /\ F32Idle /\ ArmInit

\* hwmon = dev_get_drvdata(dev)
ArmGetLabelStore(p) ==
    /\ arm_call[p].pc = "idle"
    /\ \E dev \in ArmDevices, type \in ArmTypes, chan \in ArmChannels :
         /\ arm_hwmon' = dev
         /\ arm_call' = [arm_call EXCEPT ![p] =
                           [ArmIdle EXCEPT !.pc = "stored", !.op = "read_string",
                                           !.dev = dev, !.type = type, !.chan = chan]]
    /\ UNCHANGED <<hwmon_vars, f32_vars>>

\* switch (type) { ... *label = hwmon->sensors->...[chan].label ... }
ArmGetLabelLoad(p) ==
    /\ arm_call[p].pc = "stored"
    /\ \E h \in {arm_call[p].dev, arm_hwmon} :
         LET r == macsmc_hwmon_get_label(h, arm_call[p].type, arm_call[p].chan)
         IN  arm_call' = [arm_call EXCEPT ![p].pc = "done", ![p].ret = r.ret,
                                          ![p].label = r.label]
    /\ UNCHANGED <<hwmon_vars, f32_vars, arm_hwmon>>

ArmRead(p) ==
    /\ arm_call[p].pc = "idle"
    /\ \E dev \in ArmDevices, type \in ArmTypes, chan \in ArmChannels,
          tr \in ArmTransportOutcomes :
         \E o \in arm_macsmc_hwmon_read(dev, type, chan, tr) :
           arm_call' = [arm_call EXCEPT ![p] =
                         [pc |-> "done", op |-> "read", dev |-> dev, type |-> type,
                          chan |-> chan, ret |-> o.ret, label |-> <<>>,
                          key |-> o.key, val |-> o.val]]
    /\ UNCHANGED <<hwmon_vars, f32_vars, arm_hwmon>>

ArmReturn(p) ==
    /\ arm_call[p].pc = "done"
    /\ arm_call' = [arm_call EXCEPT ![p] = ArmIdle]
    /\ UNCHANGED <<hwmon_vars, f32_vars, arm_hwmon>>

NextArm ==
    \E p \in Callers :
      ArmGetLabelStore(p) \/ ArmGetLabelLoad(p) \/ ArmRead(p) \/ ArmReturn(p)

SpecArm == InitArm /\ [][NextArm]_vars

(***************************************************************************)
(* What the device tree and the SMC's key table say, independently of the  *)
(* driver: which key nodes resolve, and the descriptor each should yield.  *)
(***************************************************************************)
KeyResolves(prop) ==
    prop # <<>> /\ apple_smc_get_key_info(SMC_KEY(prop[1])).ret = "OK"

KeyType(prop) == apple_smc_get_key_info(SMC_KEY(prop[1])).type

ChildResolves(c) == KeyResolves(c.keyid)

ResolvedChildren(g) == SelectSeq(dt.group[g].children, ChildResolves)

LabelSource(c) == IF c.keydesc # <<>> THEN c.keydesc[1] ELSE c.keyid[1]

Terminated(label) == \E i \in 1..Len(label) : label[i] = 0

\* the characters of a field before its first NUL (all of it when there is none)
Meaningful(label) ==
    LET stop == IF Terminated(label)
                THEN CHOOSE i \in 1..Len(label) :
                       label[i] = 0 /\ \A j \in 1..(i - 1) : label[j] # 0
                ELSE Len(label) + 1
    IN  SubSeq(label, 1, stop - 1)

Min(a, b) == IF a <= b THEN a ELSE b

EntryMatches(g, e, c) ==
    IF g = "fan"
    THEN /\ e.now.macsmc_key = SMC_KEY(c.keyid[1])
         /\ e.now.type_code = KeyType(c.keyid)
         /\ Meaningful(e.label) = SubSeq(LabelSource(c), 1,
                                         Min(Len(LabelSource(c)), MAX_LABEL_LENGTH))
    ELSE /\ e.macsmc_key = SMC_KEY(c.keyid[1])
         /\ e.type_code = KeyType(c.keyid)
         /\ Meaningful(e.label) = SubSeq(LabelSource(c), 1,
                                         Min(Len(LabelSource(c)), MAX_LABEL_LENGTH))

Registered == bound /\ probe_ret = "OK"

SensorTypes == {"hwmon_temp", "hwmon_in", "hwmon_curr", "hwmon_power"}

(***************************************************************************)
(* C1.  A read of a channel index at or beyond the number of entries of    *)
(* its group returns the out-of-range error (-EINVAL, as read_label does), *)
(* calls the transport never, and fetches no descriptor slot.              *)
(***************************************************************************)
C1_ReadOutOfRange ==
    (/\ call.op = "read"
     /\ call.type \in SensorTypes \cup {"hwmon_fan"}
     /\ call.channel >= hwmon[GroupOf(call.type)].n)
    => (call.ret = "EINVAL" /\ call.calls = <<>> /\ ~call.fetched)

(***************************************************************************)
(* C2.  The case: a read of min, max or target of a fan of the registry.   *)
(***************************************************************************)
FanFieldProp(c, attr) ==
    IF attr = "min" THEN c.fmin ELSE IF attr = "max" THEN c.fmax ELSE c.ftarget

C2_Case ==
    /\ call.op = "read" /\ call.type = "hwmon_fan"
    /\ call.attr \in {"min", "max", "target"}
    /\ call.channel < hwmon["fan"].n

C2_Rejected == call.ret = "EINVAL" /\ call.calls = <<>>

\* C2 as claimed: read_fan returns CapabilityUnset, with no transport call,
\* exactly when the field's property was absent or unresolvable at build
\* time, and succeeds when it was present and resolved.
C2_FanCapabilityOrSuccess ==
    C2_Case =>
      LET prop == FanFieldProp(ResolvedChildren("fan")[call.channel + 1], call.attr)
      IN  /\ C2_Rejected <=> ~KeyResolves(prop)
          /\ KeyResolves(prop) => call.ret = "OK"

\* C2 as amended: the capability check rejects, before any transport call,
\* exactly when the field's property was absent or unresolvable at build
\* time; when it was present and resolved the check passes and the field's
\* key is read: one transport call for that key when its type is flt or
\* ioft, the read succeeding iff the call does, and -EOPNOTSUPP without a
\* call for any other type.
C2_FanCapability ==
    C2_Case =>
      LET prop == FanFieldProp(ResolvedChildren("fan")[call.channel + 1], call.attr)
      IN  /\ ~call.fault
          /\ C2_Rejected <=> ~KeyResolves(prop)
          /\ KeyResolves(prop) =>
               IF KeyType(prop) \in {TYPE_FLT, TYPE_IOFT}
               THEN /\ Len(call.calls) = 1
                    /\ call.calls[1].key = SMC_KEY(prop[1])
                    /\ call.ret = "OK" <=> call.calls[1].ret = "OK"
                    /\ call.ret \in {"OK", "EINVAL"}
               ELSE call.ret = "EOPNOTSUPP" /\ call.calls = <<>>

\* witness: fan-maximum is in the tree but its key does not resolve, and the
\* read of max is rejected
C2_Witness ==
    /\ C2_Case /\ call.attr = "max" /\ C2_Rejected
    /\ ResolvedChildren("fan")[call.channel + 1].fmax = Prop(S_FBAD)

(***************************************************************************)
(* C3.  After probe, every group holds exactly the resolving children of   *)
(* its node, in child order: n is their number M, and entry k carries the  *)
(* key, type and label of the k-th of them, nothing of a failed child.     *)
(***************************************************************************)
C3_ResolvedInOrder ==
    (bound /\ dt.hwmon_node) =>
      \A g \in Groups :
        /\ hwmon[g].n = Len(ResolvedChildren(g))
        /\ hwmon[g].n <= Len(hwmon[g].arr)
        /\ \A k \in 1..hwmon[g].n :
             EntryMatches(g, hwmon[g].arr[k], ResolvedChildren(g)[k])

\* witness: a node of two children whose first fails; the second is entry 0
C3_Witness ==
    \E g \in Groups :
      /\ bound /\ hwmon[g].n = 1
      /\ Len(dt.group[g].children) = 2
      /\ ~ChildResolves(dt.group[g].children[1])

Alone(tree, g) ==
    [tree EXCEPT !.group = [x \in Groups |-> IF x = g THEN tree.group[g] ELSE AbsentNode]]

C5_Confined(g) ==
    LET alone == PopulateGroup(Alone(dt, g), g)
    IN  hwmon[g] = GroupStruct(g, alone) /\ pop[g].ret = alone.ret

\* C5 as claimed: an absent group node gives an empty group and no failure;
\* a present node none of whose children resolves gives an error for that
\* group that differs from the absent case; either way the other groups are
\* populated as they would be alone.
C5_AbsentVersusUnresolvable ==
    (bound /\ dt.hwmon_node) =>
      \A g \in Groups :
        /\ ~dt.group[g].present => (hwmon[g].n = 0 /\ pop[g].ret = "EOPNOTSUPP")
        /\ (dt.group[g].present /\ ResolvedChildren(g) = <<>>) =>
             (hwmon[g].n = 0 /\ pop[g].ret \notin {"OK", "EOPNOTSUPP"})
        /\ C5_Confined(g)

\* C5 as amended: an absent group node gives an empty group and
\* -EOPNOTSUPP; a present node with at least one child, none of which
\* resolves, gives -EINVAL for that group; a present node with no children
\* at all gives the same -EOPNOTSUPP as an absent one (only the message
\* logged differs); in every case the other groups are populated as they
\* would be alone.
C5_AbsentVersusUnresolvableWithChildren ==
    (bound /\ dt.hwmon_node) =>
      \A g \in Groups :
        /\ ~dt.group[g].present =>
             (hwmon[g].n = 0 /\ pop[g].ret = "EOPNOTSUPP" /\ pop[g].log[1] = "info")
        /\ (dt.group[g].present /\ dt.group[g].children # <<>>
            /\ ResolvedChildren(g) = <<>>) =>
             (hwmon[g].n = 0 /\ pop[g].ret = "EINVAL" /\ pop[g].log[1] = "err")
        /\ (dt.group[g].present /\ dt.group[g].children = <<>>) =>
             (hwmon[g].n = 0 /\ pop[g].ret = "EOPNOTSUPP" /\ pop[g].log[1] = "err")
        /\ C5_Confined(g)

\* witness: one group absent, one present and unresolvable, one childless,
\* and another populated beside them
C5_Witness ==
    /\ bound
    /\ ~dt.group["temp"].present
    /\ pop["power"].ret = "EINVAL"
    /\ dt.group["volt"].present /\ dt.group["volt"].children = <<>>
    /\ hwmon["fan"].n = 1

(***************************************************************************)
(* C8.  Every label of the registry is the key-desc string when the node   *)
(* has one, else the key-id string, cut to at most 31 characters and       *)
(* terminated inside the 32 byte field.                                    *)
(***************************************************************************)
C8_LabelTerminated ==
    (bound /\ dt.hwmon_node) =>
      \A g \in Groups : \A k \in 1..hwmon[g].n :
        LET src == LabelSource(ResolvedChildren(g)[k])
            lbl == hwmon[g].arr[k].label
        IN  /\ Terminated(lbl)
            /\ Meaningful(lbl) = SubSeq(src, 1, Min(Len(src), MAX_LABEL_LENGTH - 1))

(***************************************************************************)
(* C9.  A read that reaches the transport calls it exactly once, and when  *)
(* that call fails the read returns the transport's own error unchanged.   *)
(***************************************************************************)
C9_TransportErrorPassedThrough ==
    (call.op = "read" /\ call.calls # <<>>) =>
      /\ Len(call.calls) = 1
      /\ call.calls[1].ret # "OK" => call.ret = call.calls[1].ret

(***************************************************************************)
(* C6.  The decoder takes its exponent from bits 30-23 alone, and a        *)
(* pattern with the sign bit set decodes to the negation of the pattern    *)
(* with the same exponent and mantissa and the sign bit clear; the pattern *)
(* with only the sign bit set decodes to 0.                                *)
(***************************************************************************)
C6_SignNegates ==
    /\ \A i \in 1..Len(f32out) : f32out[i].exp = f32out[i].e
    /\ \A i \in 1..Len(f32out) :
         (f32out[i].sign = 1 /\ f32out[i].e = 0 /\ f32out[i].m = 0) => f32out[i].res = 0
    /\ \A i, j \in 1..Len(f32out) :
         (/\ f32out[i].sign = 1 /\ f32out[j].sign = 0
          /\ f32out[i].e = f32out[j].e /\ f32out[i].m = f32out[j].m)
         => f32out[i].res = 0 - f32out[j].res

(***************************************************************************)
(* C7.  With the sign bit clear, among patterns whose value fits the s32   *)
(* result (below 2^21, exponent field at most 147), a pattern with the     *)
(* larger exponent+mantissa never decodes to the smaller result.           *)
(***************************************************************************)
F32Fits(p) == p.e <= 147

F32Below(p, q) == p.e < q.e \/ (p.e = q.e /\ p.m <= q.m)

C7_Monotone ==
    \A i, j \in 1..Len(f32out) :
      (/\ f32out[i].sign = 0 /\ f32out[j].sign = 0
       /\ F32Fits(f32out[i]) /\ F32Fits(f32out[j])
       /\ F32Below(f32out[i], f32out[j]))
      => f32out[i].res <= f32out[j].res

(***************************************************************************)
(* C10.  Whatever the interleaving of the callers, a finished label lookup *)
(* holds the label of the device, group and channel it was asked about,    *)
(* as it would had it run alone, and no callback has written the static    *)
(* variable the callers share.                                             *)
(***************************************************************************)
C10_CallersIsolated ==
    \A p \in Callers :
      (arm_call[p].pc = "done" /\ arm_call[p].op = "read_string") =>
        /\ arm_call[p].ret =
             macsmc_hwmon_get_label(arm_call[p].dev, arm_call[p].type, arm_call[p].chan).ret
        /\ arm_call[p].label =
             macsmc_hwmon_get_label(arm_call[p].dev, arm_call[p].type, arm_call[p].chan).label

(***************************************************************************)
(* C11.  After a successful build the metadata lists the chip entry, then  *)
(* exactly the non-empty groups in the order temperature, voltage,         *)
(* current, power, fan, then a NULL pointer at index n_chans - 1; the      *)
(* config array of a listed group with n entries holds n flag words and a  *)
(* 0 at index n, every word of a fixed-quantity group being its            *)
(* INPUT | LABEL pair and word k of the fan group the capability bitmask   *)
(* of fan k.                                                               *)
(***************************************************************************)
ListedGroups ==
    SelectSeq(<<"temp", "volt", "curr", "power", "fan">>, LAMBDA g : hwmon[g].n # 0)

EntryType(i) == Load(info, InfoEntry(info, i))
ConfigWord(i, k) == Load(info, InfoConfig(info, i) + k * SIZEOF_U32)

C11_InfoLayout ==
    probe_ret = "OK" =>
      /\ info.n_chans = Len(ListedGroups) + 2
      /\ EntryType(0) = hwmon_type("hwmon_chip")
      /\ InfoEntry(info, info.n_chans - 1) = 0
      /\ \A i \in 1..Len(ListedGroups) :
           LET g == ListedGroups[i]
           IN  /\ EntryType(i) = hwmon_type(InfoType(g))
               /\ InfoConfig(info, i) = InfoEntry(info, i) + SIZEOF_CHANNEL_INFO
               /\ \A k \in 0..(hwmon[g].n - 1) :
                    ConfigWord(i, k) = IF g = "fan" THEN hwmon[g].arr[k + 1].attrs
                                                   ELSE InfoFlags(g)
               /\ ConfigWord(i, hwmon[g].n) = 0

\* witness: power, voltage and fan entries listed together, the fan with a
\* minimum beside its input and label
C11_Witness ==
    /\ probe_ret = "OK"
    /\ hwmon["power"].n = 1 /\ hwmon["volt"].n = 1 /\ hwmon["fan"].n = 1
    /\ hwmon["temp"].n = 0
    /\ HasBit(hwmon["fan"].arr[1].attrs, hwmon_fan("min"))
    /\ info.n_chans = 5
    /\ EntryType(1) = hwmon_type("hwmon_in")
    /\ ConfigWord(3, 0) = hwmon["fan"].arr[1].attrs

(***************************************************************************)
(* C12.  Every store made while the metadata is filled in lands inside the *)
(* info_sz bytes probe allocated, and no store made for one channel lands  *)
(* on bytes already stored to for another channel.                         *)
(***************************************************************************)
Overlap(a, b) == a.off < b.off + b.len /\ b.off < a.off + a.len

C12_WritesInsideBlock ==
    probe_ret = "OK" =>
      /\ \A k \in 1..Len(info.writes) :
           info.writes[k].off >= 0 /\ info.writes[k].off + info.writes[k].len <= info.sz
      /\ \A a, b \in 1..Len(info.writes) :
           (a < b /\ Overlap(info.writes[a], info.writes[b]))
             => info.writes[a].ch = info.writes[b].ch

(***************************************************************************)
(* C13.  Whenever macsmc_hwmon_populate_sensors found the group node, it   *)
(* released it with of_node_put before returning, whatever it returned.    *)
(***************************************************************************)
C13_GroupNodeReleased ==
    \A g \in Groups :
      (bound /\ dt.hwmon_node /\ dt.group[g].present) => pop[g].put

(***************************************************************************)
(* C14.  The long a successful read hands back is, as a signed number, the *)
(* value the transport decoded, negative when that is negative.            *)
(***************************************************************************)
C14_SignedValue ==
    (call.op = "read" /\ call.ret = "OK" /\ call.calls # <<>>)
      => call.val = LongOfInt(call.calls[1].out)

====
